---- MODULE Spec2Model ----
(***************************************************************************)
(* Model of the neurontainer RCE dispatch core: the action catalog, the    *)
(* permission file, and RCEActionHandler as a per-request state machine    *)
(* whose steps are the synchronous stretches between awaits.               *)
(***************************************************************************)
EXTENDS Naturals, Sequences, FiniteSets, TLC

\* ------------------------------------------------------------------ bounds
\* Number of requests the caller transport delivers in one run.
MaxReq == 1
\* Number of validators the validator-bearing catalog action declares.
MaxValidators == 2
\* Number of connect and reconnect attempts in one run.
MaxAttempts == 2
\* Number of successive reads of the permission file in one run.
MaxReads == 2

\* Entries of a catalog in the duplicate check.
MaxCatalog == 4
\* Number of 100 ms sleeps of waitForNeuroConnection after which the deadline
\* has certainly passed (timeoutMs / 100 in the program).
MaxPolls == 1

\* --------------------------------------------------------------- constants
\* consts/index.ts:224
ERROR_MSG_REFERENCE == "Someone tell the VSC-NeuroPilot crew there is a problem with their integration!"

\* A JavaScript undefined (an optional argument or field left out).
Undefined == "<undefined>"

\* ----------------------------------------------------------------- catalog
\* The static catalog (functions/index: actions = [...containerActions, ...]).
\* schema: the action declares containerTargetSchema; validators: how many
\* validator functions it declares (RCEAction.validators, rce.d.ts:20).
\* The shipped catalog declares no validators; the third entry stands for an
\* RCEAction that uses the optional validators field.
actions ==
    << [name |-> "list_containers",
        description |-> "List all Docker containers with their current status.",
        schema |-> FALSE, validators |-> 0, defaultPermission |-> "OFF"],
       [name |-> "start_container",
        description |-> "Start a stopped Docker container by name or ID.",
        schema |-> TRUE, validators |-> 0, defaultPermission |-> "OFF"],
       [name |-> "guarded_container",
        description |-> "Act on a Docker container after its validators pass.",
        schema |-> TRUE, validators |-> MaxValidators,
        defaultPermission |-> "OFF"] >>

ActionNames == {actions[i].name : i \in 1..Len(actions)}

\* Names a request can carry: every catalog name and one that is in no catalog.
RequestNames == ActionNames \cup {"bogus_action"}

\* A find that resolves to the last match.
findLast(as, n) ==
    IF \E i \in 1..Len(as) : as[i].name = n
    THEN CHOOSE i \in 1..Len(as) :
            /\ as[i].name = n
            /\ \A j \in (i + 1)..Len(as) : as[j].name # n
    ELSE 0

\* as.find((a) => a.name === n): index of the first match, 0 when there is
\* none.
find(as, n) ==
    IF \E i \in 1..Len(as) : as[i].name = n
    THEN CHOOSE i \in 1..Len(as) :
            /\ as[i].name = n
            /\ \A j \in 1..(i - 1) : as[j].name # n
    ELSE 0

\* actions.find((a) => a.name === actionData.name)
Find(n) == find(actions, n)

\* ----------------------------------------------------------------- strings
StartsWith(s, p) == Len(s) >= Len(p) /\ SubSeq(s, 1, Len(p)) = p

Contains(s, sub) ==
    \E i \in 1..(Len(s) + 1) :
        /\ i + Len(sub) - 1 <= Len(s)
        /\ SubSeq(s, i, i + Len(sub) - 1) = sub

\* Array.prototype.join
RECURSIVE Join(_, _)
Join(seq, sep) ==
    IF Len(seq) = 0 THEN ""
    ELSE IF Len(seq) = 1 THEN seq[1]
    ELSE seq[1] \o sep \o Join(Tail(seq), sep)

\* --------------------------------------------------------- permission file
\* An ActionConfig is a function from a set of names to JSON booleans, held
\* here as the strings "true" and "false".
\* The JSON values JavaScript takes for false: false, null, 0, the empty
\* string, and a value that is not there.
Falsy == {"false", Undefined, "null", "0", ""}

\* !v written where Boolean(v) is meant.
JsBooleanNegated(v) == IF v \in Falsy THEN "true" ELSE "false"

\* JavaScript Boolean(v) of a persisted JSON value.
JsBoolean(v) == IF v \in Falsy THEN "false" ELSE "true"

\* { ...f, ...g }
Spread(f, g) ==
    [k \in (DOMAIN f) \cup (DOMAIN g) |-> IF k \in DOMAIN g THEN g[k] ELSE f[k]]

getDefaultConfig == [n \in ActionNames |-> "true"]

normalizeConfig(input, previous) ==
    LET mergedRaw == Spread(Spread(getDefaultConfig, previous), input)
    IN  [k \in DOMAIN mergedRaw |-> JsBoolean(mergedRaw[k])]

\* The empty object, for an argument that is absent (previous ?? {}).
EmptyConfig == [k \in {} |-> "true"]

\* The file at CONFIG_PATH.  kind says what readConfig finds there:
\*   "missing"     no file              "blank"   only whitespace
\*   "unreadable"  readFileSync throws  "garbage" not JSON
\*   "scalar"      JSON, but no object
\*   "legacy"      a flat object { name: bool }
\*   "new"         { permissions: { name: bool } }
File(kind, perms) == [kind |-> kind, perms |-> perms]

\* writeConfig: the file becomes { permissions: config }.
writeConfig(config) == File("new", config)

\* A readConfig without its catch: the error reaches the caller.
ReadFailedRethrown(d) == [config |-> getDefaultConfig, disk |-> d, threw |-> TRUE]

\* readConfig's catch (permissions.ts:81-84): the defaults, the file as it is.
ReadFailed(d) == [config |-> getDefaultConfig, disk |-> d, threw |-> FALSE]

\* readConfig: the config it returns, the file it leaves behind, and whether
\* it threw.  writeOk says whether a writeConfig it makes succeeds; one that
\* fails throws inside readConfig's try.
readConfig(d, writeOk) ==
    CASE d.kind \in {"missing", "blank", "scalar"} ->
            IF writeOk
            THEN [config |-> getDefaultConfig,
                  disk |-> writeConfig(getDefaultConfig), threw |-> FALSE]
            ELSE ReadFailed(d)
      [] d.kind \in {"unreadable", "garbage"} -> ReadFailed(d)
      [] d.kind = "new" -> [config |-> d.perms, disk |-> d, threw |-> FALSE]
      [] OTHER ->
            LET normalized == normalizeConfig(d.perms, EmptyConfig)
            IN  IF writeOk
                THEN [config |-> normalized, disk |-> writeConfig(normalized),
                      threw |-> FALSE]
                ELSE ReadFailed(d)

\* permissions[name]
Entry(config, n) == IF n \in DOMAIN config THEN config[n] ELSE Undefined

\* The entry the file holds for an action, Undefined when it holds none.
Persisted(d, n) ==
    IF d.kind \in {"legacy", "new"} THEN Entry(d.perms, n) ELSE Undefined

\* ------------------------------------------------------- schema validation
\* containerTargetSchema: { type: "object", properties: { container:
\* { type: "string" } }, required: ["container"] }.  The shapes of params:
\*   "valid"       { container: "c1" }     "missing"  {}
\*   "badtype"     { container: 5 }        "notobject"  "c1"
\*   "unreported"  the validator reports valid = false with an empty errors
\*                 array (the case rce.ts:46 provides for)
ParamShapes == {"valid", "missing", "badtype", "notobject", "unreported"}

\* validate(actionData.params, action.schema, { required: true }): valid and
\* the stack of each error.
validate(params) ==
    CASE params = "valid" -> [valid |-> TRUE, errors |-> << >>]
      [] params = "missing" ->
            [valid |-> FALSE,
             errors |-> << "instance requires property \"container\"" >>]
      [] params = "badtype" ->
            [valid |-> FALSE,
             errors |-> << "instance.container is not of a type(s) string" >>]
      [] params = "notobject" ->
            [valid |-> FALSE,
             errors |-> << "instance is not of a type(s) object" >>]
      [] OTHER -> [valid |-> FALSE, errors |-> << >>]

\* rce.ts:43-44: an error's line in the message.
StripInstance(stack) ==
    IF StartsWith(stack, "instance.") THEN SubSeq(stack, 10, Len(stack))
    ELSE stack

\* The error lines without the fallback for an empty errors array.
messagesArrayNoFallback(errors) ==
    [i \in 1..Len(errors) |-> StripInstance(errors[i])]

\* rce.ts:41-46
messagesArray(errors) ==
    LET lines == [i \in 1..Len(errors) |-> StripInstance(errors[i])]
    IN  IF Len(lines) = 0 THEN << "Unknown schema validation error." >>
        ELSE lines

\* rce.ts:47-48
SchemaMessage(errors) ==
    "Action failed, your inputs did not pass schema validation due to these problems:\n\n"
    \o ("- " \o Join(messagesArray(errors), "\n- "))
    \o "\n\nPlease pay attention to the schema and the above errors if you choose to retry."

\* ---------------------------------------------------------- transport calls
\* What RCEActionHandler does for one request is recorded, in program order,
\* in that request's trace: its calls on CONT.neuro and the checks and calls
\* it makes on the way:
\*   ready            the test of CONT.docker       (rce.ts:10)
\*   find             the catalog lookup            (rce.ts:15-17)
\*   readConfig       the permission read, with the entry the file held
\*                    and the entry readConfig returned (rce.ts:25-26)
\*   validate         the schema validation         (rce.ts:39-40)
\*   validator        the call of validator i       (rce.ts:56)
\*   validatorResult  what the awaited validator i returned
\*   validatorThrew   the awaited validator i threw
\*   handler          the call of action.handler    (rce.ts:67)
\*   handlerResult    what the awaited handler returned
\*   handlerThrew     the awaited handler threw
SendContext(msg, silent) == [t |-> "sendContext", msg |-> msg, silent |-> silent]

SendActionResult(id, success, msg) ==
    [t |-> "sendActionResult", id |-> id, success |-> success, msg |-> msg]

\* JavaScript !v for a boolean-or-undefined field.
JsNot(v) == v \in {"false", Undefined}

\* The readiness gate answering on the result channel as well.
NotReadyCallsWithResult ==
    << SendContext("Docker client not initialized, " \o ERROR_MSG_REFERENCE, "true"),
       SendActionResult("1", FALSE, "Docker client not initialized") >>

\* rce.ts:11
NotReadyCalls ==
    << SendContext("Docker client not initialized, " \o ERROR_MSG_REFERENCE, "true") >>

\* The lookup gate reporting an unknown action as a failure.
UnknownActionCallsFailed(id) == << SendActionResult(id, FALSE, "Unknown action.") >>

\* The lookup gate returning without reporting.
UnknownActionCallsNone(id) == << >>

\* rce.ts:18
UnknownActionCalls(id) == << SendActionResult(id, TRUE, "Unknown action.") >>

\* The permission gate left out: nothing is ever refused.
PermissionDisabledNever(permissions, n) == FALSE

\* rce.ts:26
PermissionDisabled(permissions, n) == Entry(permissions, n) = "false"

\* rce.ts:27-29
DisabledCalls(id, n) ==
    << SendActionResult(id, FALSE,
                        "Action \"" \o n \o "\" is disabled by permissions.") >>

\* rce.ts:34
PermissionCheckFailedCalls(id) ==
    << SendActionResult(id, TRUE,
           "Failed to check your access to this action! " \o ERROR_MSG_REFERENCE) >>

\* rce.ts:49
SchemaFailureCalls(id, errors) ==
    << SendActionResult(id, FALSE, SchemaMessage(errors)) >>

\* A validator failure that does not return: the pipeline goes on to the
\* acknowledgment.
ValidatorFailureCallsNoReturn(id, result) ==
    << SendActionResult(id, JsNot(result.retry), result.message),
       SendActionResult(id, TRUE, Undefined) >>

\* A validator failure that sends the retry flag itself as the success flag.
ValidatorFailureCallsRetryAsSuccess(id, result) ==
    << SendActionResult(id, ~JsNot(result.retry), result.message) >>

\* rce.ts:58
ValidatorFailureCalls(id, result) ==
    << SendActionResult(id, JsNot(result.retry), result.message) >>

\* The handler called before the acknowledgment is sent.
AcceptCallsHandlerFirst(id, persisted) ==
    << [t |-> "handler", persisted |-> persisted],
       SendActionResult(id, TRUE, Undefined) >>

\* rce.ts:64-67: the acknowledgment, then the call of the handler.  The
\* handler event carries the entry the permission file holds at that moment.
AcceptCalls(id, persisted) ==
    << SendActionResult(id, TRUE, Undefined),
       [t |-> "handler", persisted |-> persisted] >>

\* The outcome sent without the failure prefix.
OutcomeCallsNoPrefix(actionResult) ==
    << SendContext(actionResult.message, actionResult.silent) >>

\* rce.ts:69
OutcomeCalls(actionResult) ==
    << SendContext(IF actionResult.success THEN actionResult.message
                   ELSE "Action failed: " \o actionResult.message,
                   actionResult.silent) >>

\* The catch answering on the result channel as well.
ThrewCallsWithResult ==
    << SendContext("Action threw an exception during execution! "
                   \o ERROR_MSG_REFERENCE, Undefined),
       SendActionResult("1", FALSE, "Action threw an exception during execution!") >>

\* rce.ts:71
ThrewCalls ==
    << SendContext("Action threw an exception during execution! "
                   \o ERROR_MSG_REFERENCE, Undefined) >>

\* ------------------------------------------------------------- environment
\* What a validator can settle with: an ActionValidationResult (rce.d.ts:35-48)
\* or an exception.
ValidatorMessages == {"try again", "not now"}

ValidationResults ==
    {[success |-> TRUE, message |-> Undefined, retry |-> Undefined]}
    \cup [success : {FALSE}, message : ValidatorMessages \cup {Undefined},
          retry : {"true", "false", Undefined}]

\* What a handler can settle with: an ActionResult (rce.d.ts:10-14) or an
\* exception.
ActionResults ==
    [success : {TRUE}, message : {"Container c1 started."},
     silent : {"true", "false", Undefined}]
    \cup [success : {FALSE}, message : {"No such container: c1"},
          silent : {"true", "false", Undefined}]

\* validateIncomingConfig (permissions.ts:103-119) for an object payload.
validateIncomingConfig(incoming) == (DOMAIN incoming) \subseteq ActionNames

\* The partial configs a PUT config carries: one name, one value.
IncomingConfigs ==
    {[k \in {n} |-> v] : n \in RequestNames, v \in {"true", "false"}}

\* The files the process can find at start.
InitialConfigs ==
    UNION {[S -> {"true", "false"}] : S \in SUBSET ActionNames}

InitialFiles ==
    {File(k, EmptyConfig) :
        k \in {"missing", "blank", "unreadable", "garbage", "scalar"}}
    \cup {File(k, c) : k \in {"legacy", "new"}, c \in InitialConfigs}

\* ------------------------------------------------------------------- state
VARIABLES
    docker,           \* CONT.docker is set
    disk,             \* the file at CONFIG_PATH
    req,              \* per request: where RCEActionHandler stands and its actionData
    trace,            \* per request: what RCEActionHandler has done so far
    neuro,            \* CONT.neuro: the client held, by number; 0 when none
    neuroConnected,   \* CONT.neuroConnected
    neuroGeneration,  \* CONT.neuroGeneration
    lastNeuroEvent,   \* CONT.lastNeuroEvent
    clients,          \* every NeuroClient constructed so far, in order
    sync              \* the last registration sync: its inputs and its calls

rceVars == << docker, disk, req, trace >>

connVars == << neuro, neuroConnected, neuroGeneration, lastNeuroEvent, clients >>

vars == << docker, disk, req, trace, neuro, neuroConnected, neuroGeneration,
           lastNeuroEvent, clients, sync >>

ReqIds == 1..MaxReq

\* actionData.id of request r
IdOf(r) == ToString(r)

Idle == [pc |-> "idle", name |-> Undefined, vi |-> 0]

\* lastNeuroEvent: NeuroEvent | null = null; an event is held by its type
\* and the generation of the attempt it belongs to.
NeuroEvent(type, gen) == [type |-> type, gen |-> gen]

NoNeuroEvent == NeuroEvent("null", 0)

\* The fields of CONT as the constructor leaves them (consts/index.ts:19-27).
Constructed ==
    /\ neuro = 0
    /\ neuroConnected = FALSE
    /\ neuroGeneration = 0
    /\ lastNeuroEvent = NoNeuroEvent
    /\ clients = << >>

\* No registration sync has run.
NoSync == [op |-> "none"]

Init ==
    /\ docker = FALSE
    /\ disk \in InitialFiles
    /\ req = [r \in ReqIds |-> Idle]
    /\ trace = [r \in ReqIds |-> << >>]
    /\ Constructed
    /\ sync = NoSync

\* ------------------------------------------------------- RCEActionHandler
\* rce.ts:54-67 from validator number i on: call validator i and await it,
\* or, past the last one, acknowledge and call the handler.  d is the file.
FromValidator(id, n, i, d) ==
    IF i <= actions[Find(n)].validators
    THEN [pc |-> "awaitValidator", vi |-> i,
          calls |-> << [t |-> "validator", i |-> i] >>]
    ELSE [pc |-> "awaitHandler", vi |-> 0,
          calls |-> AcceptCalls(id, Persisted(d, n))]

\* rce.ts:38-52 and on.
FromSchema(id, n, params, d) ==
    LET action == actions[Find(n)]
        result == validate(params)
    IN  IF action.schema
        THEN IF ~result.valid
             THEN [pc |-> "done", vi |-> 0,
                   calls |-> << [t |-> "validate", params |-> params,
                                 valid |-> FALSE] >>
                             \o SchemaFailureCalls(id, result.errors)]
             ELSE LET rest == FromValidator(id, n, 1, d)
                  IN  [rest EXCEPT !.calls =
                           << [t |-> "validate", params |-> params,
                               valid |-> TRUE] >> \o @]
        ELSE FromValidator(id, n, 1, d)

\* rce.ts:8-36 and on: RCEActionHandler up to its first await.  ready is
\* CONT.docker, d the file, writeOk whether a write by readConfig succeeds;
\* the result also names the file readConfig leaves.
Begin(id, n, params, ready, d, writeOk) ==
    IF ~ready
    THEN [pc |-> "done", vi |-> 0, disk |-> d,
          calls |-> << [t |-> "ready", docker |-> FALSE] >> \o NotReadyCalls]
    ELSE IF Find(n) = 0
    THEN [pc |-> "done", vi |-> 0, disk |-> d,
          calls |-> << [t |-> "ready", docker |-> TRUE],
                       [t |-> "find", found |-> FALSE] >>
                    \o UnknownActionCalls(id)]
    ELSE LET rc == readConfig(d, writeOk)
             head == << [t |-> "ready", docker |-> TRUE],
                        [t |-> "find", found |-> TRUE],
                        [t |-> "readConfig", persisted |-> Persisted(d, n),
                         entry |-> Entry(rc.config, n)] >>
         IN  IF rc.threw
             THEN [pc |-> "done", vi |-> 0, disk |-> rc.disk,
                   calls |-> head \o PermissionCheckFailedCalls(id)]
             ELSE IF PermissionDisabled(rc.config, n)
             THEN [pc |-> "done", vi |-> 0, disk |-> rc.disk,
                   calls |-> head \o DisabledCalls(id, n)]
             ELSE LET rest == FromSchema(id, n, params, rc.disk)
                  IN  [pc |-> rest.pc, vi |-> rest.vi, disk |-> rc.disk,
                       calls |-> head \o rest.calls]

\* A transport that takes up the next request only when RCEActionHandler has
\* ended for every earlier one.
DeliverableSerialized(r) ==
    \A q \in DOMAIN req : q < r => req[q].pc \in {"done", "rejected"}

\* onAction(RCEActionHandler): the transport calls the handler for each
\* request as it arrives and does not await the promise it returns.  Requests
\* are numbered in order of arrival.
Deliverable(r) ==
    \A q \in DOMAIN req : q < r => req[q].pc # "idle"

\* RCEActionHandler runs for request r to its first await or to its end:
\* what becomes of the request, its trace and the file.
Delivered(r) ==
    /\ req[r].pc = "idle"
    /\ Deliverable(r)
    /\ \E n \in RequestNames, params \in ParamShapes, writeOk \in BOOLEAN :
          LET run == Begin(IdOf(r), n, params, docker, disk, writeOk)
          IN  /\ req' = [req EXCEPT ![r] = [pc |-> run.pc, name |-> n, vi |-> run.vi]]
              /\ trace' = [trace EXCEPT ![r] = run.calls]
              /\ disk' = run.disk

\* The transport delivers request r (onAction): RCEActionHandler runs to its
\* first await or to its end.
Dispatch(r) ==
    /\ Delivered(r)
    /\ UNCHANGED << docker, connVars, sync >>

\* rce.ts:56-60: RCEActionHandler resumes with what the validator returned.
ValidatorReturned(r) ==
    /\ req[r].pc = "awaitValidator"
    /\ \E result \in ValidationResults :
          LET seen == << [t |-> "validatorResult", i |-> req[r].vi,
                          result |-> result] >>
          IN  IF ~result.success
              THEN /\ req' = [req EXCEPT ![r].pc = "done"]
                   /\ trace' = [trace EXCEPT ![r] =
                                   @ \o seen \o ValidatorFailureCalls(IdOf(r), result)]
              ELSE LET rest == FromValidator(IdOf(r), req[r].name, req[r].vi + 1, disk)
                   IN  /\ req' = [req EXCEPT ![r].pc = rest.pc, ![r].vi = rest.vi]
                       /\ trace' = [trace EXCEPT ![r] = @ \o seen \o rest.calls]

\* rce.ts:56-60: the awaited validator returns.
ValidatorReturns(r) ==
    /\ ValidatorReturned(r)
    /\ UNCHANGED << docker, disk, connVars, sync >>

\* rce.ts:56: RCEActionHandler resumes with the validator's exception.
ValidatorThrew(r) ==
    /\ req[r].pc = "awaitValidator"
    /\ req' = [req EXCEPT ![r].pc = "rejected"]
    /\ trace' = [trace EXCEPT ![r] =
                    @ \o << [t |-> "validatorThrew", i |-> req[r].vi] >>]

\* rce.ts:56: the awaited validator throws.  Nothing encloses the await, so
\* the promise RCEActionHandler returned rejects.
ValidatorThrows(r) ==
    /\ ValidatorThrew(r)
    /\ UNCHANGED << docker, disk, connVars, sync >>

\* rce.ts:67-69: RCEActionHandler resumes with what the handler returned.
HandlerReturned(r) ==
    /\ req[r].pc = "awaitHandler"
    /\ \E actionResult \in ActionResults :
          trace' = [trace EXCEPT ![r] =
                       @ \o << [t |-> "handlerResult", result |-> actionResult] >>
                         \o OutcomeCalls(actionResult)]
    /\ req' = [req EXCEPT ![r].pc = "done"]

\* rce.ts:67-69: the awaited handler returns.
HandlerReturns(r) ==
    /\ HandlerReturned(r)
    /\ UNCHANGED << docker, disk, connVars, sync >>

\* rce.ts:70-72: RCEActionHandler resumes with the handler's exception.
HandlerThrew(r) ==
    /\ req[r].pc = "awaitHandler"
    /\ trace' = [trace EXCEPT ![r] =
                    @ \o << [t |-> "handlerThrew"] >> \o ThrewCalls]
    /\ req' = [req EXCEPT ![r].pc = "done"]

\* rce.ts:70-72: the awaited handler throws.
HandlerThrows(r) ==
    /\ HandlerThrew(r)
    /\ UNCHANGED << docker, disk, connVars, sync >>

\* consts/index.ts:32-38: DockerClient.fromDockerConfig() resolves.
LoadDockerClient ==
    /\ ~docker
    /\ docker' = TRUE
    /\ UNCHANGED << disk, req, trace, connVars, sync >>

\* PUT config: validate the names, merge into the current config, persist.
\* An update that names an unknown action, or whose write fails, is rejected
\* and changes nothing.
PutConfig ==
    /\ \E incoming \in IncomingConfigs, writeOk \in BOOLEAN :
          IF validateIncomingConfig(incoming) /\ writeOk
          THEN disk' = writeConfig(normalizeConfig(incoming,
                                                   readConfig(disk, TRUE).config))
          ELSE disk' = disk
    /\ UNCHANGED << docker, req, trace, connVars, sync >>

Next ==
    \/ \E r \in ReqIds : Dispatch(r)
    \/ \E r \in ReqIds : ValidatorReturns(r)
    \/ \E r \in ReqIds : ValidatorThrows(r)
    \/ \E r \in ReqIds : HandlerReturns(r)
    \/ \E r \in ReqIds : HandlerThrows(r)
    \/ LoadDockerClient
    \/ PutConfig

Spec == Init /\ [][Next]_vars

\* ------------------------------------------------- several requests at once
\* The same pipeline with one request more in flight, started from a file
\* in the current format.
ConcurrentIds == 1..(MaxReq + 1)

InitConcurrent ==
    /\ docker = FALSE
    /\ disk = File("new", getDefaultConfig)
    /\ req = [r \in ConcurrentIds |-> Idle]
    /\ trace = [r \in ConcurrentIds |-> << >>]
    /\ Constructed
    /\ sync = NoSync

NextConcurrent ==
    \/ \E r \in ConcurrentIds : Dispatch(r)
    \/ \E r \in ConcurrentIds : ValidatorReturns(r)
    \/ \E r \in ConcurrentIds : ValidatorThrows(r)
    \/ \E r \in ConcurrentIds : HandlerReturns(r)
    \/ \E r \in ConcurrentIds : HandlerThrows(r)
    \/ LoadDockerClient
    \/ PutConfig

\* The transport delivers every request it was sent.  Nothing is assumed of
\* validators and handlers: any of them may never settle.
SpecConcurrent ==
    /\ InitConcurrent
    /\ [][NextConcurrent]_vars
    /\ \A r \in ConcurrentIds : WF_vars(Dispatch(r))

\* ------------------------------------------------------ connection manager
\* A stripToAction that lets the permission level through.
stripToActionWithPermission(action) ==
    [name |-> action.name, description |-> action.description,
     schema |-> action.schema, defaultPermission |-> action.defaultPermission]

\* utils/misc stripToAction({ name, description, schema }): the wire view of
\* one action.
stripToAction(action) ==
    [name |-> action.name, description |-> action.description,
     schema |-> action.schema]

\* utils/misc stripToActions: actions.map(stripToAction).
stripToActions(as) == [i \in 1..Len(as) |-> stripToAction(as[i])]

\* NeuroClient.registerActions: the names the transport advertises afterwards.
registerActions(registered, wire) ==
    registered \cup {wire[i].name : i \in 1..Len(wire)}

\* NeuroClient.unregisterActions
unregisterActions(registered, names) == registered \ names

\* new NeuroClient(url, GAME_NAME, onConnected): the socket starts its
\* handshake.  gen is the generation the callbacks capture, via the method
\* that made the client.  pending holds the socket events whose callback has
\* not run yet; wait is the promise of reconnectNeuro.
NewClient(via, gen) ==
    [via |-> via, gen |-> gen, ws |-> "connecting", pending |-> {},
     everOpen |-> FALSE, registered |-> {}, registerCalls |-> 0,
     onAction |-> 0, contexts |-> << >>,
     wait |-> IF via = "reconnectNeuro" THEN "polling" ELSE "none",
     polls |-> 0]

\* A callback that takes every generation for the current one.
CurrentAlways(gen) == TRUE

\* consts/index.ts:74,95,112,176,192,199: gen !== this.neuroGeneration, negated.
Current(gen) == gen = neuroGeneration

\* A teardown that closes only a socket that is already open.
ShouldCloseOnlyOpen(ws) == ws = "open"

\* consts/index.ts:162: this.neuro.ws.readyState !== 3
ShouldClose(ws) == ws # "closed"

\* A wait that takes any socket not yet closed for a connected one.
ReadyStateOpenOrConnecting(ws) == ws # "closed"

\* consts/index.ts:149-150: rs === 1
ReadyStateOpen(ws) == ws = "open"

\* consts/index.ts:66-126.  The program calls initNeuro once, at start.
InitNeuro ==
    /\ neuroGeneration = 0
    /\ ~neuroConnected
    /\ LET gen == neuroGeneration + 1
       IN  /\ lastNeuroEvent' = NeuroEvent("connect_attempt", gen)
           /\ neuroGeneration' = gen
           /\ clients' = Append(clients, NewClient("initNeuro", gen))
           /\ neuro' = Len(clients) + 1
    /\ UNCHANGED << neuroConnected, rceVars, sync >>

\* A reconnect that puts the permission file back to the defaults.
ReconnectNeuroResetting ==
    /\ neuroGeneration < MaxAttempts
    /\ neuroGeneration' = neuroGeneration + 1
    /\ lastNeuroEvent' = NeuroEvent("reconnect_request", neuroGeneration + 1)
    /\ neuroConnected' = FALSE
    /\ clients' = Append(clients, NewClient("reconnectNeuro", neuroGeneration + 1))
    /\ neuro' = Len(clients) + 1
    /\ disk' = writeConfig(getDefaultConfig)
    /\ UNCHANGED << docker, req, trace, sync >>

\* POST /api/reconnect/neuro (part_016:138-150) and reconnectNeuro up to its
\* first sleep (consts/index.ts:158-214): close the socket held, bump the
\* generation, make the new client, find it connecting and sleep.
ReconnectNeuro ==
    /\ neuroGeneration < MaxAttempts
    /\ LET gen == neuroGeneration + 1
           torn == IF neuro # 0 /\ ShouldClose(clients[neuro].ws)
                   THEN [clients EXCEPT ![neuro].ws = "closing"]
                   ELSE clients
       IN  /\ lastNeuroEvent' = NeuroEvent("reconnect_request", gen)
           /\ neuroConnected' = FALSE
           /\ neuroGeneration' = gen
           /\ clients' = Append(torn, NewClient("reconnectNeuro", gen))
           /\ neuro' = Len(clients) + 1
    /\ UNCHANGED << rceVars, sync >>

\* The socket of client c completes its handshake; its open event is queued.
TransportOpens(c) ==
    /\ clients[c].ws = "connecting"
    /\ clients' = [clients EXCEPT ![c].ws = "open", ![c].everOpen = TRUE,
                                  ![c].pending = @ \cup {"open"}]
    /\ UNCHANGED << neuro, neuroConnected, neuroGeneration, lastNeuroEvent,
                    rceVars, sync >>

\* The socket of client c fails; its error event is queued.
TransportErrors(c) ==
    /\ clients[c].ws \in {"connecting", "open"}
    /\ clients' = [clients EXCEPT ![c].ws = "closing",
                                  ![c].pending = @ \cup {"error"}]
    /\ UNCHANGED << neuro, neuroConnected, neuroGeneration, lastNeuroEvent,
                    rceVars, sync >>

\* The socket of client c is closed; its close event is queued.
TransportCloses(c) ==
    /\ clients[c].ws # "closed"
    /\ clients' = [clients EXCEPT ![c].ws = "closed",
                                  ![c].pending = @ \cup {"close"}]
    /\ UNCHANGED << neuro, neuroConnected, neuroGeneration, lastNeuroEvent,
                    rceVars, sync >>

\* consts/index.ts:30: actionHandler is null and nothing assigns it.
actionHandlerSet == FALSE

\* consts/index.ts:91,187: the readiness message of each method.
ReadyMessage(via) ==
    IF via = "initNeuro"
    THEN "neurontainer is now connected and ready to manage Docker containers"
    ELSE "neurontainer reconnected and ready to manage Docker containers"

\* The body of an onConnected callback made by method via, past its
\* generation test (consts/index.ts:75-91, 177-187): what becomes of the
\* client CONT.neuro holds.
Connected(client, via) ==
    [client EXCEPT
        !.registered = registerActions(@, stripToActions(actions)),
        !.registerCalls = @ + 1,
        !.onAction = IF via = "reconnectNeuro" \/ actionHandlerSet
                     THEN @ + 1 ELSE @,
        !.contexts = Append(@, SendContext(ReadyMessage(via), "false"))]

\* The onConnected callback of client c runs.
OnOpen(c) ==
    /\ "open" \in clients[c].pending
    /\ LET taken == [clients EXCEPT ![c].pending = @ \ {"open"}]
       IN  IF Current(clients[c].gen)
           THEN /\ neuroConnected' = TRUE
                /\ lastNeuroEvent' = NeuroEvent("connected", clients[c].gen)
                /\ clients' = [taken EXCEPT
                                  ![neuro] = Connected(@, clients[c].via)]
           ELSE /\ clients' = taken
                /\ UNCHANGED << neuroConnected, lastNeuroEvent >>
    /\ UNCHANGED << neuro, neuroGeneration, rceVars, sync >>

\* The onError callback of client c runs (consts/index.ts:94-109, 191-196).
OnError(c) ==
    /\ "error" \in clients[c].pending
    /\ clients' = [clients EXCEPT ![c].pending = @ \ {"error"}]
    /\ lastNeuroEvent' = IF Current(clients[c].gen)
                         THEN NeuroEvent("error", clients[c].gen)
                         ELSE lastNeuroEvent
    /\ UNCHANGED << neuro, neuroConnected, neuroGeneration, rceVars, sync >>

\* A close callback that also starts a new connection attempt.
OnCloseReconnecting(c) ==
    /\ "close" \in clients[c].pending
    /\ neuroGeneration < MaxAttempts
    /\ Current(clients[c].gen)
    /\ lastNeuroEvent' = NeuroEvent("close", clients[c].gen)
    /\ neuroGeneration' = neuroGeneration + 1
    /\ clients' = Append([clients EXCEPT ![c].pending = @ \ {"close"}],
                         NewClient("initNeuro", neuroGeneration + 1))
    /\ neuro' = Len(clients) + 1
    /\ UNCHANGED << neuroConnected, rceVars, sync >>

\* The onClose callback of client c runs (consts/index.ts:111-125, 198-212).
OnClose(c) ==
    /\ "close" \in clients[c].pending
    /\ clients' = [clients EXCEPT ![c].pending = @ \ {"close"}]
    /\ lastNeuroEvent' = IF Current(clients[c].gen)
                         THEN NeuroEvent("close", clients[c].gen)
                         ELSE lastNeuroEvent
    /\ UNCHANGED << neuro, neuroConnected, neuroGeneration, rceVars, sync >>

\* waitForNeuroConnection wakes from a sleep (consts/index.ts:148-155) and
\* the route goes on (part_016:151-172).  expired: Date.now() has reached the
\* deadline, which the loop tests first.
Wake(c) ==
    /\ clients[c].wait = "polling"
    /\ \E expired \in BOOLEAN :
          /\ clients[c].polls >= MaxPolls => expired
          /\ IF expired
             THEN /\ clients' = [clients EXCEPT ![c].wait = "rejected"]
                  /\ lastNeuroEvent' = NeuroEvent("reconnect_fail", clients[c].gen)
             ELSE IF ReadyStateOpen(clients[c].ws)
             THEN /\ clients' = [clients EXCEPT ![c].wait = "resolved"]
                  /\ lastNeuroEvent' = NeuroEvent("reconnect_success", clients[c].gen)
             ELSE /\ clients' = [clients EXCEPT ![c].polls = @ + 1]
                  /\ UNCHANGED lastNeuroEvent
    /\ UNCHANGED << neuro, neuroConnected, neuroGeneration, rceVars, sync >>

\* functions/index reregisterAllActions (part_011:28-40) on the client held.
ReregisterAllActions ==
    /\ neuro # 0
    /\ LET names == {actions[i].name : i \in 1..Len(actions)}
           wire == stripToActions(actions)
       IN  /\ clients' = [clients EXCEPT ![neuro].registered =
                             registerActions(unregisterActions(@, names), wire)]
           /\ sync' = [op |-> "reregisterAllActions", unregistered |-> names,
                       registered |-> {wire[i].name : i \in 1..Len(wire)}]
    /\ UNCHANGED << neuro, neuroConnected, neuroGeneration, lastNeuroEvent,
                    rceVars >>

\* The permission files the connection manager is run against.
ConnFiles ==
    {File("missing", EmptyConfig), File("new", getDefaultConfig)}
    \cup {File("new", [getDefaultConfig EXCEPT ![n] = "false"]) : n \in ActionNames}

ConnInit ==
    /\ docker = FALSE
    /\ disk \in ConnFiles
    /\ req = [r \in ReqIds |-> Idle]
    /\ trace = [r \in ReqIds |-> << >>]
    /\ Constructed
    /\ sync = NoSync

ConnNext ==
    \/ InitNeuro
    \/ ReconnectNeuro
    \/ \E c \in DOMAIN clients : TransportOpens(c)
    \/ \E c \in DOMAIN clients : TransportErrors(c)
    \/ \E c \in DOMAIN clients : TransportCloses(c)
    \/ \E c \in DOMAIN clients : OnOpen(c)
    \/ \E c \in DOMAIN clients : OnError(c)
    \/ \E c \in DOMAIN clients : OnClose(c)
    \/ \E c \in DOMAIN clients : Wake(c)
    \/ ReregisterAllActions

ConnSpec == ConnInit /\ [][ConnNext]_vars

\* -------------------------------------------------------- registration delta
\* PermissionLevel, and the complete leveled configs over the catalog.
PermissionLevels == {"OFF", "FORCE", "AUTOPILOT"}

LevelConfigs == [ActionNames -> PermissionLevels]

\* A delta that registers again every enabled action whose level changed.
applyDeltaOnAnyChange(previous, next) ==
    [unregistered |-> {n \in ActionNames :
                          next[n] = "OFF" /\ previous[n] # "OFF"},
     registered |-> {n \in ActionNames :
                        next[n] # "OFF" /\ previous[n] # next[n]}]

\* applyDelta(previous, next): the names it unregisters and the names it
\* registers with the transport.
applyDelta(previous, next) ==
    [unregistered |-> {n \in ActionNames :
                          next[n] = "OFF" /\ previous[n] # "OFF"},
     registered |-> {n \in ActionNames :
                        next[n] # "OFF" /\ previous[n] = "OFF"}]

\* A config update is about to trigger the delta.
DeltaInit ==
    /\ docker = FALSE
    /\ disk = File("new", getDefaultConfig)
    /\ req = [r \in ReqIds |-> Idle]
    /\ trace = [r \in ReqIds |-> << >>]
    /\ Constructed
    /\ sync \in [op : {"pending"}, previous : LevelConfigs, next : LevelConfigs]

\* The delta runs: its two calls on the transport.
ApplyDelta ==
    /\ sync.op = "pending"
    /\ LET calls == applyDelta(sync.previous, sync.next)
       IN  sync' = [op |-> "applyDelta", previous |-> sync.previous,
                    next |-> sync.next, unregistered |-> calls.unregistered,
                    registered |-> calls.registered]
    /\ UNCHANGED << rceVars, connVars >>

DeltaNext == ApplyDelta

DeltaSpec == DeltaInit /\ [][DeltaNext]_vars

\* ------------------------------------------------------ permission functions
\* The dispatch pipeline and the connection manager as constructed, at rest.
AtRest ==
    /\ docker = FALSE
    /\ req = [r \in ReqIds |-> Idle]
    /\ trace = [r \in ReqIds |-> << >>]
    /\ Constructed

\* The keys a config object can carry: the catalog names and a name that is
\* in no catalog (an action since removed).
ConfigKeys == ActionNames \cup {"removed_action"}

\* The values a parsed JSON object can hold under a key.
RawValues == {"true", "false", "OFF", "null"}

\* input: Partial<ActionConfig> | null | undefined, as parsed JSON.
RawConfigs == UNION {[S -> RawValues] : S \in SUBSET ConfigKeys}

\* previous?: ActionConfig
PreviousConfigs == UNION {[S -> {"true", "false"}] : S \in SUBSET ConfigKeys}

\* normalizeConfig is about to be called.
PermInit ==
    /\ AtRest
    /\ disk = File("missing", EmptyConfig)
    /\ sync \in [op : {"call"}, input : RawConfigs, previous : PreviousConfigs]

\* getDefaultConfig(actions), normalizeConfig(actions, input, previous),
\* normalizeConfig(actions, input) and normalizeConfig applied to that.
NormalizeConfig ==
    /\ sync.op = "call"
    /\ LET once == normalizeConfig(sync.input, EmptyConfig)
       IN  sync' = [op |-> "normalizeConfig", input |-> sync.input,
                    previous |-> sync.previous,
                    defaults |-> getDefaultConfig,
                    result |-> normalizeConfig(sync.input, sync.previous),
                    once |-> once,
                    twice |-> normalizeConfig(once, EmptyConfig)]
    /\ UNCHANGED << rceVars, connVars >>

PermNext == NormalizeConfig

PermSpec == PermInit /\ [][PermNext]_vars

\* ------------------------------------------------------- reading the file
\* Successive calls of readConfig on the file at CONFIG_PATH; sync keeps, per
\* call, the file before, whether the file system took writes, the config
\* returned and the file after.
ReadInit ==
    /\ AtRest
    /\ disk \in InitialFiles
    /\ sync = [op |-> "reads", log |-> << >>]

\* readConfig(actions, CONFIG_PATH, logger); writeOk: whether a write it
\* makes succeeds.
ReadConfigCall ==
    /\ sync.op = "reads"
    /\ Len(sync.log) < MaxReads
    /\ \E writeOk \in BOOLEAN :
          LET rc == readConfig(disk, writeOk)
          IN  /\ disk' = rc.disk
              /\ sync' = [sync EXCEPT !.log =
                             Append(@, [before |-> disk, writeOk |-> writeOk,
                                        config |-> rc.config,
                                        after |-> rc.disk])]
    /\ UNCHANGED << docker, req, trace, connVars >>

ReadNext == ReadConfigCall

ReadSpec == ReadInit /\ [][ReadNext]_vars

\* ------------------------------------------------------- updating the file
\* The payloads a config update can carry, as parsed JSON.  json: the JSON
\* kind; value: the scalar, for a scalar; entries: the own enumerable keys
\* and their values (for an array, its indices).
Payload(json, value, entries) ==
    [json |-> json, value |-> value, entries |-> entries]

Payloads ==
    {Payload("null", "null", EmptyConfig)}
    \cup {Payload("boolean", v, EmptyConfig) : v \in {"true", "false"}}
    \cup {Payload("number", v, EmptyConfig) : v \in {"0", "5"}}
    \cup {Payload("string", v, EmptyConfig) : v \in {"", "list_containers"}}
    \cup {Payload("array", "", EmptyConfig)}
    \cup {Payload("array", "", [k \in {"0"} |-> v]) : v \in {"true", "false"}}
    \cup {Payload("object", "", EmptyConfig)}
    \cup {Payload("object", "", [k \in S |-> v]) :
            S \in (SUBSET {"list_containers", "start_container", "bogus_action"})
                  \ {{}},
            v \in {"true", "false"}}

\* typeof incoming
Typeof(p) == IF p.json \in {"null", "array", "object"} THEN "object" ELSE p.json

\* !incoming
Not(p) ==
    \/ p.json = "null"
    \/ p.json = "boolean" /\ p.value = "false"
    \/ p.json = "number" /\ p.value = "0"
    \/ p.json = "string" /\ p.value = ""

\* validateIncomingConfig (permissions.ts:103-119) for any payload.
validateIncoming(p) ==
    IF Not(p) \/ Typeof(p) # "object"
    THEN [ok |-> FALSE, error |-> "Invalid config format"]
    ELSE IF ~validateIncomingConfig(p.entries)
    THEN [ok |-> FALSE, error |-> "Unknown action"]
    ELSE [ok |-> TRUE, value |-> p.entries]

UpdateInit ==
    /\ AtRest
    /\ disk \in InitialFiles
    /\ sync = [op |-> "update", done |-> FALSE]

\* One config update: validate the payload, merge it over the config read,
\* persist.  sync keeps the payload, the validation result, and the file
\* before and after.
UpdateConfig ==
    /\ sync.op = "update"
    /\ ~sync.done
    /\ \E payload \in Payloads, writeOk \in BOOLEAN :
          LET result == validateIncoming(payload)
              after == IF result.ok /\ writeOk
                       THEN writeConfig(normalizeConfig(
                                result.value, readConfig(disk, TRUE).config))
                       ELSE disk
          IN  /\ disk' = after
              /\ sync' = [op |-> "update", done |-> TRUE, payload |-> payload,
                          result |-> result, before |-> disk, after |-> after]
    /\ UNCHANGED << docker, req, trace, connVars >>

UpdateNext == UpdateConfig

UpdateSpec == UpdateInit /\ [][UpdateNext]_vars

\* ---------------------------------------------------- advertising an action
\* The RCEActions stripToAction can be given (rce.d.ts:18-23): name,
\* description and optional schema of the transport's Action, and the
\* fields the program adds.
RCEActions ==
    [name : {"list_containers", "start_container"},
     description : {"List all Docker containers with their current status.",
                    "Start a stopped Docker container by name or ID."},
     schema : BOOLEAN,
     displayName : {Undefined, "Containers"},
     validators : {0, 1},
     handler : {"handleListContainers", "handleStartContainer"},
     defaultPermission : {"OFF", "AUTOPILOT"}]

\* stripToAction is about to be called on two actions.
StripInit ==
    /\ AtRest
    /\ disk = File("missing", EmptyConfig)
    /\ sync \in [op : {"strip"}, a : RCEActions, b : RCEActions]

\* stripToAction(a), stripToAction(b)
StripToAction ==
    /\ sync.op = "strip"
    /\ sync' = [op |-> "stripToAction", a |-> sync.a, b |-> sync.b,
                wa |-> stripToAction(sync.a), wb |-> stripToAction(sync.b)]
    /\ UNCHANGED << rceVars, connVars >>

StripNext == StripToAction

StripSpec == StripInit /\ [][StripNext]_vars

\* ------------------------------------------------------ the duplicate check
\* The catalogs the duplicate check can be given: up to MaxCatalog actions
\* over three names.
CatalogNames == {"list_containers", "start_container", "stop_container"}

CatalogAction(n) ==
    [name |-> n, description |-> "Act on " \o n, schema |-> FALSE]

Catalogs ==
    UNION {[1..k -> {CatalogAction(n) : n \in CatalogNames}] : k \in 1..MaxCatalog}

\* `Duplicate action name: "${action.name}" at indices ${seen.get(...)} and
\* ${index}`; indices count from 0.
DuplicateMessage(n, first, index) ==
    "Duplicate action name: \"" \o n \o "\" at indices "
        \o ToString(first) \o " and " \o ToString(index)

\* The forEach of reregisterAllActions from entry k (counting from 1) on:
\* seen maps a name to the index it was first met at, log is what
\* CONT.logger.error has been given.
RECURSIVE DuplicateCheck(_, _, _, _)
DuplicateCheck(as, k, seen, log) ==
    IF k > Len(as)
    THEN log
    ELSE LET n == as[k].name
         IN  IF n \in DOMAIN seen
             THEN DuplicateCheck(as, k + 1, seen,
                      Append(log, DuplicateMessage(n, seen[n], k - 1)))
             ELSE DuplicateCheck(as, k + 1,
                      [m \in DOMAIN seen \cup {n} |->
                          IF m = n THEN k - 1 ELSE seen[m]],
                      log)

CatalogInit ==
    /\ AtRest
    /\ disk = File("missing", EmptyConfig)
    /\ sync \in [op : {"catalog"}, catalog : Catalogs]

\* reregisterAllActions over the catalog, on a transport that advertises
\* nothing yet, and a lookup of each name as the dispatcher makes it.
CheckCatalog ==
    /\ sync.op = "catalog"
    /\ LET as == sync.catalog
           names == {as[i].name : i \in 1..Len(as)}
       IN  sync' = [op |-> "checked", catalog |-> as,
                    errors |-> DuplicateCheck(as, 1, << >>, << >>),
                    registered |-> registerActions(
                        unregisterActions({}, names), stripToActions(as)),
                    found |-> [n \in CatalogNames |-> find(as, n)]]
    /\ UNCHANGED << rceVars, connVars >>

CatalogNext == CheckCatalog

CatalogSpec == CatalogInit /\ [][CatalogNext]_vars

\* ------------------------------------------------ dispatch over every level
\* The dispatch pipeline started from a file that holds, for one action, any
\* value the two formats provide for: a level name in the
\* { permissions: ... } format, or a boolean in either format.
LevelValues == {"OFF", "FORCE", "AUTOPILOT"}

LevelFiles ==
    {File("new", [m \in {n} |-> v]) :
        n \in ActionNames, v \in LevelValues \cup {"true", "false"}}
    \cup {File("legacy", [m \in {n} |-> v]) :
            n \in ActionNames, v \in {"true", "false"}}

LevelInit ==
    /\ docker = FALSE
    /\ disk \in LevelFiles
    /\ req = [r \in ReqIds |-> Idle]
    /\ trace = [r \in ReqIds |-> << >>]
    /\ Constructed
    /\ sync = NoSync

LevelSpec == LevelInit /\ [][Next]_vars

\* ------------------------------------------- requests across a reconnect
\* The dispatch pipeline and the connection manager together.  Every
\* transport call of RCEActionHandler is made on CONT.neuro, the client held
\* at the moment of the call; sync keeps, per request, the client that
\* delivered it and the client each of its messages went out on.  Sockets
\* here open and stay open; the permission file is complete and is not
\* updated.
IsSend(e) == e.t \in {"sendActionResult", "sendContext"}

\* The sendActionResult and sendContext calls in a trace.
SendsIn(tr) == Cardinality({k \in 1..Len(tr) : IsSend(tr[k])})

\* CONT.neuro.sendActionResult / CONT.neuro.sendContext for the calls this
\* step adds to the trace of request r.
SentOnHeld(r) ==
    sync' = [sync EXCEPT !.sent[r] =
                @ \o [i \in 1..(SendsIn(trace'[r]) - SendsIn(trace[r])) |-> neuro]]

\* RCEActionHandler is attached to client c: at start-up to the client
\* initNeuro made (part_016:176-178), by onConnected to one reconnectNeuro
\* made (consts/index.ts:185).
Attached(c) == clients[c].via = "initNeuro" \/ clients[c].onAction > 0

RouteInit ==
    /\ docker = FALSE
    /\ disk = File("new", getDefaultConfig)
    /\ req = [r \in ReqIds |-> Idle]
    /\ trace = [r \in ReqIds |-> << >>]
    /\ Constructed
    /\ sync = [op |-> "route", origin |-> [r \in ReqIds |-> 0],
               sent |-> [r \in ReqIds |-> << >>]]

\* The client held delivers request r on its open socket.
RouteDispatch(r) ==
    /\ neuro # 0
    /\ clients[neuro].ws = "open"
    /\ Attached(neuro)
    /\ Delivered(r)
    /\ sync' = [sync EXCEPT !.origin[r] = neuro,
                            !.sent[r] = [i \in 1..SendsIn(trace'[r]) |-> neuro]]
    /\ UNCHANGED << docker, connVars >>

RouteValidatorReturns(r) ==
    /\ ValidatorReturned(r)
    /\ SentOnHeld(r)
    /\ UNCHANGED << docker, disk, connVars >>

RouteValidatorThrows(r) ==
    /\ ValidatorThrew(r)
    /\ UNCHANGED << docker, disk, connVars, sync >>

RouteHandlerReturns(r) ==
    /\ HandlerReturned(r)
    /\ SentOnHeld(r)
    /\ UNCHANGED << docker, disk, connVars >>

RouteHandlerThrows(r) ==
    /\ HandlerThrew(r)
    /\ SentOnHeld(r)
    /\ UNCHANGED << docker, disk, connVars >>

RouteNext ==
    \/ \E r \in ReqIds : RouteDispatch(r)
    \/ \E r \in ReqIds : RouteValidatorReturns(r)
    \/ \E r \in ReqIds : RouteValidatorThrows(r)
    \/ \E r \in ReqIds : RouteHandlerReturns(r)
    \/ \E r \in ReqIds : RouteHandlerThrows(r)
    \/ LoadDockerClient
    \/ InitNeuro
    \/ ReconnectNeuro
    \/ \E c \in DOMAIN clients : TransportOpens(c)
    \/ \E c \in DOMAIN clients : OnOpen(c)
    \/ \E c \in DOMAIN clients : Wake(c)

RouteSpec == RouteInit /\ [][RouteNext]_vars

\* ---------------------------------------------------- the shared config file
\* CONFIG_PATH is one file for config/permissions and config/config
\* (DiskConfig: { permissions?, neuro? }).  A neuro section is held by its
\* websocketUrl: a document in the { permissions: ... } format carries it in
\* a field neuro, a flat document under the key "neuro" beside its action
\* entries.
NeuroUrl == "ws://host.docker.internal:8000"

WithNeuro(d) ==
    IF d.kind = "new"
    THEN [kind |-> "new", perms |-> d.perms, neuro |-> NeuroUrl]
    ELSE File(d.kind, Spread(d.perms, [k \in {"neuro"} |-> NeuroUrl]))

SharedFiles ==
    LET plain == {File(k, c) : k \in {"legacy", "new"}, c \in InitialConfigs}
    IN  plain \cup {WithNeuro(d) : d \in plain}

\* config/config readDiskConfig: the parsed document, {} when there is none.
readDiskConfig(d) ==
    CASE d.kind = "legacy" -> d.perms
      [] d.kind = "new" ->
            IF "neuro" \in DOMAIN d
            THEN [permissions |-> d.perms, neuro |-> d.neuro]
            ELSE [permissions |-> d.perms]
      [] OTHER -> << >>

\* readDiskConfig(CONFIG_PATH).neuro
NeuroSection(d) ==
    LET parsed == readDiskConfig(d)
    IN  IF "neuro" \in DOMAIN parsed THEN parsed["neuro"] ELSE Undefined

SharedInit ==
    /\ AtRest
    /\ disk \in SharedFiles
    /\ sync = [op |-> "shared", log |-> << >>]

\* readConfig(actions, CONFIG_PATH, logger) on the shared file.
SharedReadConfig ==
    /\ sync.op = "shared"
    /\ Len(sync.log) < MaxReads
    /\ \E writeOk \in BOOLEAN :
          LET rc == readConfig(disk, writeOk)
          IN  /\ disk' = rc.disk
              /\ sync' = [sync EXCEPT !.log =
                             Append(@, [call |-> "readConfig", before |-> disk,
                                        after |-> rc.disk])]
    /\ UNCHANGED << docker, req, trace, connVars >>

\* writeConfig(CONFIG_PATH, config, logger) on the shared file; a write the
\* file system refuses throws and leaves the file.
SharedWriteConfig ==
    /\ sync.op = "shared"
    /\ Len(sync.log) < MaxReads
    /\ \E config \in {getDefaultConfig} \cup
                     {[getDefaultConfig EXCEPT ![n] = "false"] : n \in ActionNames},
          writeOk \in BOOLEAN :
          LET after == IF writeOk THEN writeConfig(config) ELSE disk
          IN  /\ disk' = after
              /\ sync' = [sync EXCEPT !.log =
                             Append(@, [call |-> "writeConfig", before |-> disk,
                                        after |-> after])]
    /\ UNCHANGED << docker, req, trace, connVars >>

SharedNext ==
    \/ SharedReadConfig
    \/ SharedWriteConfig

SharedSpec == SharedInit /\ [][SharedNext]_vars

\* ================================================================== claims
\* Positions in request r's trace of the events of type t.
At(r, t) == {k \in 1..Len(trace[r]) : trace[r][k].t = t}

\* Whether RCEActionHandler has ended for request r (returned or rejected).
Ended(r) == req[r].pc \in {"done", "rejected"}

\* The catalog action request r names (only for a name Find resolves).
ActionOf(r) == actions[Find(req[r].name)]

\* The checks that precede the acknowledgment of request r, when the handler
\* call stands at position k of its trace: all before position k - 1.
GatesPassedBefore(r, k) ==
    LET tr == trace[r]
        a == ActionOf(r)
        s == IF a.schema THEN 1 ELSE 0
    IN  /\ Find(req[r].name) # 0
        /\ k = 3 + s + 2 * a.validators + 2
        /\ tr[1] = [t |-> "ready", docker |-> TRUE]
        /\ tr[2] = [t |-> "find", found |-> TRUE]
        /\ tr[3].t = "readConfig" /\ tr[3].entry # "false"
        /\ a.schema => (tr[4].t = "validate" /\ tr[4].valid
                        /\ validate(tr[4].params).valid)
        /\ \A i \in 1..a.validators :
              /\ tr[3 + s + 2 * i - 1] = [t |-> "validator", i |-> i]
              /\ tr[3 + s + 2 * i].t = "validatorResult"
              /\ tr[3 + s + 2 * i].i = i
              /\ tr[3 + s + 2 * i].result.success

\* A check of request r that did not pass.
GateFailed(r) ==
    \E k \in 1..Len(trace[r]) :
        LET e == trace[r][k]
        IN  \/ e.t = "ready" /\ ~e.docker
            \/ e.t = "find" /\ ~e.found
            \/ e.t = "readConfig" /\ e.entry = "false"
            \/ e.t = "validate" /\ ~e.valid
            \/ e.t = "validatorResult" /\ ~e.result.success
            \/ e.t = "validatorThrew"

ResultsFor(r) ==
    {k \in At(r, "sendActionResult") : trace[r][k].id = IdOf(r)}

\* Whether request r was turned away at the readiness gate.
NotReady(r) == Len(trace[r]) > 0 /\ trace[r][1] = [t |-> "ready", docker |-> FALSE]

\* C2 as stated: once RCEActionHandler has ended for a request,
\* sendActionResult has been called exactly once with that request's id, on
\* every path.
C2_ExactlyOneResultOnEveryPath ==
    \A r \in ReqIds : Ended(r) => Cardinality(ResultsFor(r)) = 1

\* C2 amended: sendActionResult is called at most once per request and only
\* with that request's id; when RCEActionHandler has ended it was called
\* exactly once, except that it was called zero times when the resource
\* manager was not initialised or when an awaited validator threw.
C2_AtMostOneResult ==
    \A r \in ReqIds :
        /\ ResultsFor(r) = At(r, "sendActionResult")
        /\ Cardinality(ResultsFor(r)) <= 1
        /\ Ended(r) =>
              Cardinality(ResultsFor(r)) =
                  IF NotReady(r) \/ req[r].pc = "rejected" THEN 0 ELSE 1

\* A request that ran to the end of the pipeline, handler included, with its
\* one result.
C2_Witness ==
    \E r \in ReqIds :
        /\ req[r].pc = "done"
        /\ At(r, "handler") # {}
        /\ Cardinality(ResultsFor(r)) = 1

\* Request r has been refused: RCEActionHandler has ended, the handler was
\* not called, and the one result sent is a failure naming the action.
Refused(r) ==
    /\ req[r].pc = "done"
    /\ At(r, "handler") = {}
    /\ Cardinality(At(r, "sendActionResult")) = 1
    /\ \A k \in At(r, "sendActionResult") :
          /\ trace[r][k].id = IdOf(r)
          /\ trace[r][k].success = FALSE
          /\ Contains(trace[r][k].msg, req[r].name)

\* C3 as stated: when a request for a catalog action reaches the permission
\* gate (the resource manager is ready) and the file at that moment holds
\* false for the action, the request is refused with a failed result naming
\* the action and the handler is not called; the file read is the one of that
\* moment, so a write made before the request arrives is seen.
C3_PersistedOffIsRefused ==
    [][\A r \in ReqIds :
          ( /\ req[r].pc = "idle"
            /\ req'[r].pc # "idle"
            /\ docker
            /\ Find(req'[r].name) # 0
            /\ Persisted(disk, req'[r].name) = "false" )
          => Refused(r)']_vars

\* C4 as stated, for what it adds to C3: under every interleaving of
\* requests and permission updates, an action the file did not hold false for
\* at the permission gate is not held false either at the moment its handler
\* is called, so that no handler is called for an action that is off then.
C4_NoHandlerWhileOff ==
    \A r \in ReqIds :
        \A k \in At(r, "handler") :
            (\A g \in At(r, "readConfig") : trace[r][g].persisted # "false")
            => trace[r][k].persisted # "false"

C6_NotReadyLeavesIdUnacknowledged ==
    \A r \in ReqIds :
        (req[r].pc # "idle" /\ NotReady(r))
        => /\ req[r].pc = "done"
           /\ Len(trace[r]) = 2
           /\ trace[r][2].t = "sendContext"
           /\ At(r, "sendActionResult") = {}
           /\ At(r, "handler") = {}

\* A request for a catalog action that was turned away at the readiness gate.
C6_Witness ==
    \E r \in ReqIds :
        /\ NotReady(r)
        /\ req[r].name \in ActionNames
        /\ At(r, "sendContext") # {}

\* C7: when a request reaches the schema validation of an action that
\* declares a schema and its params fail, exactly one result is sent, a
\* failure whose message is not empty and lists every reported problem (the
\* path of a missing required field among them); no validator and no handler
\* is called.  When validation fails with no error entry, the message holds
\* the generic fallback line.
C7_SchemaFailure ==
    \A r \in ReqIds :
        \A k \in At(r, "validate") :
            ~trace[r][k].valid =>
                /\ req[r].pc = "done"
                /\ Len(trace[r]) = k + 1
                /\ At(r, "sendActionResult") = {k + 1}
                /\ At(r, "validator") = {} /\ At(r, "handler") = {}
                /\ LET e == trace[r][k + 1]
                       p == trace[r][k].params
                   IN  /\ e.id = IdOf(r)
                       /\ e.success = FALSE
                       /\ Len(e.msg) > 0
                       /\ p = "missing" =>
                             Contains(e.msg, "- instance requires property \"container\"")
                       /\ p = "badtype" =>
                             Contains(e.msg, "- container is not of a type(s) string")
                       /\ p = "notobject" =>
                             Contains(e.msg, "- instance is not of a type(s) object")
                       /\ p = "unreported" =>
                             Contains(e.msg, "- Unknown schema validation error.")

\* A schema failure with no error entry, and its result.
C7_Witness ==
    \E r \in ReqIds :
        \E k \in At(r, "validate") :
            /\ trace[r][k].params = "unreported"
            /\ At(r, "sendActionResult") # {}

\* Another: a request that left out the required field.
C7_WitnessMissingField ==
    \E r \in ReqIds :
        \E k \in At(r, "validate") :
            /\ trace[r][k].params = "missing"
            /\ At(r, "sendActionResult") # {}

\* C8: validators are called one at a time in declaration order, each after
\* the one before it returned success; at the first that returns success =
\* false the pipeline stops: no later validator is called, no
\* acknowledgment is sent, the handler is not called, and exactly one result
\* is sent, carrying that validator's message.
C8_ValidatorsInOrderFirstFailureStops ==
    \A r \in ReqIds :
        /\ \A k \in At(r, "validator") :
              /\ trace[r][k].i = Cardinality({j \in At(r, "validator") : j <= k})
              /\ trace[r][k].i > 1 =>
                    /\ trace[r][k - 1].t = "validatorResult"
                    /\ trace[r][k - 1].i = trace[r][k].i - 1
                    /\ trace[r][k - 1].result.success
              /\ k < Len(trace[r]) =>
                    /\ trace[r][k + 1].t \in {"validatorResult", "validatorThrew"}
                    /\ trace[r][k + 1].i = trace[r][k].i
        /\ \A k \in At(r, "validatorResult") :
              ~trace[r][k].result.success =>
                  /\ req[r].pc = "done"
                  /\ Len(trace[r]) = k + 1
                  /\ At(r, "sendActionResult") = {k + 1}
                  /\ trace[r][k + 1].id = IdOf(r)
                  /\ trace[r][k + 1].msg = trace[r][k].result.message
                  /\ At(r, "handler") = {}

\* The second validator failed after the first passed.
C8_Witness ==
    \E r \in ReqIds :
        \E k \in At(r, "validatorResult") :
            /\ trace[r][k].i = 2
            /\ ~trace[r][k].result.success
            /\ At(r, "sendActionResult") # {}

\* C9: the success flag of the result sent for a failed validator is the
\* negation of the validator's retry flag: retry = true gives false, retry =
\* false gives true, retry unset gives true.
C9_SuccessIsNotRetry ==
    \A r \in ReqIds :
        \A k \in At(r, "validatorResult") :
            (~trace[r][k].result.success /\ k < Len(trace[r])) =>
                LET retry == trace[r][k].result.retry
                    sent == trace[r][k + 1]
                IN  /\ sent.t = "sendActionResult"
                    /\ retry = "true" => sent.success = FALSE
                    /\ retry = "false" => sent.success = TRUE
                    /\ retry = Undefined => sent.success = TRUE

\* A validator failed with retry unset and its result was sent.
C9_Witness ==
    \E r \in ReqIds :
        \E k \in At(r, "validatorResult") :
            /\ ~trace[r][k].result.success
            /\ trace[r][k].result.retry = Undefined
            /\ k < Len(trace[r])

\* C10: for a request that passes all gates, the acknowledgment (id, true, no
\* message) is sent before the handler is called, and the outcome context
\* message is sent only after the handler has completed, hence after the
\* acknowledgment.
C10_AckThenHandlerThenContext ==
    \A r \in ReqIds :
        \A k \in At(r, "handler") :
            /\ k > 1
            /\ trace[r][k - 1] = [t |-> "sendActionResult", id |-> IdOf(r),
                                  success |-> TRUE, msg |-> Undefined]
            /\ \A c \in At(r, "sendContext") : c = k + 2
            /\ req[r].pc = "awaitHandler" => Len(trace[r]) = k
            /\ req[r].pc = "done" =>
                  /\ Len(trace[r]) = k + 2
                  /\ trace[r][k + 1].t \in {"handlerResult", "handlerThrew"}
                  /\ trace[r][k + 2].t = "sendContext"

\* A handler returned { success: true, message } with silent unset: the
\* acknowledgment, then the call, then the message as a non-silent context
\* message.
C10_Witness ==
    \E r \in ReqIds :
        \E k \in At(r, "handler") :
            /\ req[r].pc = "done"
            /\ trace[r][k + 2] = [t |-> "sendContext",
                                  msg |-> "Container c1 started.",
                                  silent |-> Undefined]

\* C11: when the handler returns an ActionResult, exactly one context message
\* is sent, right after it: the result's message unchanged when success is
\* true, the message prefixed with "Action failed: " when success is false;
\* its silent argument is the result's silent flag, and is left out (the
\* transport's non-silent default) when the result has none.
C11_OutcomeContextMessage ==
    \A r \in ReqIds :
        \A k \in At(r, "handlerResult") :
            LET result == trace[r][k].result
            IN  /\ req[r].pc = "done"
                /\ At(r, "sendContext") = {k + 1}
                /\ Len(trace[r]) = k + 1
                /\ result.success => trace[r][k + 1].msg = result.message
                /\ ~result.success =>
                      /\ trace[r][k + 1].msg = "Action failed: " \o result.message
                      /\ StartsWith(trace[r][k + 1].msg, "Action failed: ")
                      /\ Len(trace[r][k + 1].msg) = Len(result.message) + 15
                /\ trace[r][k + 1].silent = result.silent

\* A handler returned a failure flagged silent and its context message went out.
C11_Witness ==
    \E r \in ReqIds :
        \E k \in At(r, "handlerResult") :
            /\ ~trace[r][k].result.success
            /\ trace[r][k].result.silent = "true"
            /\ At(r, "sendContext") # {}

\* C12: when the awaited handler throws, RCEActionHandler catches it and
\* returns normally: exactly one context message is sent, saying that
\* execution threw, and the only result ever sent for the id is the
\* acknowledgment that preceded the handler call.
C12_HandlerExceptionCaught ==
    \A r \in ReqIds :
        \A k \in At(r, "handlerThrew") :
            /\ req[r].pc = "done"
            /\ Len(trace[r]) = k + 1
            /\ At(r, "sendContext") = {k + 1}
            /\ Contains(trace[r][k + 1].msg, "threw an exception")
            /\ Contains(trace[r][k + 1].msg, ERROR_MSG_REFERENCE)
            /\ At(r, "sendActionResult") = {k - 2}
            /\ trace[r][k - 2] = [t |-> "sendActionResult", id |-> IdOf(r),
                                  success |-> TRUE, msg |-> Undefined]
            /\ trace[r][k - 1].t = "handler"

\* A handler threw and the pipeline ended.
C12_Witness ==
    \E r \in ReqIds : At(r, "handlerThrew") # {} /\ Ended(r)

\* C13 as stated: RCEActionHandler never ends with an unhandled exception;
\* whenever an awaited validator or handler throws, a result or a context
\* message is sent after it and the pipeline ends normally.
C13_NoUnhandledException ==
    \A r \in ReqIds :
        /\ req[r].pc # "rejected"
        /\ \A k \in At(r, "validatorThrew") \cup At(r, "handlerThrew") :
              /\ req[r].pc = "done"
              /\ \E j \in At(r, "sendActionResult") \cup At(r, "sendContext") : j > k

\* Request r has its answer: RCEActionHandler returned, the result for its id
\* was sent (unless the resource manager was not initialised), and, when the
\* handler was called, the outcome context message was sent after it.
Answered(r) ==
    /\ req[r].pc = "done"
    /\ NotReady(r) \/ Cardinality(ResultsFor(r)) = 1
    /\ \A k \in At(r, "handler") : \E c \in At(r, "sendContext") : c > k

\* The promise request r awaits settles.
Settles(r) ==
    \/ ValidatorReturns(r) \/ ValidatorThrows(r)
    \/ HandlerReturns(r) \/ HandlerThrows(r)

\* C14: requests are dispatched independently.  Whatever becomes of the
\* other requests (their validators and handlers may never return), a request
\* whose own validators and handler settle is eventually answered: its result and, when its handler ran, its outcome
\* context message (or, when one of its validators threw, the end of C13).
\* While a handler hangs, the next request can still be delivered.
C14_IndependentRequests ==
    \A r \in ConcurrentIds :
        WF_vars(Settles(r)) => <>(Answered(r) \/ req[r].pc = "rejected")

\* A later request was answered, handler and outcome included, while the
\* handler of an earlier one had not returned.
C14_Witness ==
    \E q, r \in ConcurrentIds :
        /\ q < r
        /\ req[q].pc = "awaitHandler"
        /\ Answered(r)
        /\ At(r, "handler") # {}

\* What client cl has had registered, attached and sent by onConnected bodies.
Registration(cl) == << cl.registered, cl.registerCalls, cl.onAction, cl.contexts >>

\* A callback of client c runs in this step: one of its queued events is taken.
CallbackRuns(c) ==
    /\ clients'[c].pending # clients[c].pending
    /\ clients'[c].pending \subseteq clients[c].pending

\* C15: every connect or reconnect attempt takes a generation greater than
\* every earlier one, and an open, error or close callback whose captured
\* generation is not the current one changes nothing: no registration, no
\* action handler attached, no context message, neuroConnected and
\* lastNeuroEvent as they were.  No client is registered with, attached to or
\* greeted twice.
C15_GenerationsAndStaleCallbacks ==
    [][/\ neuroGeneration' >= neuroGeneration
       /\ Len(clients') > Len(clients) =>
             /\ neuroGeneration' > neuroGeneration
             /\ clients'[Len(clients')].gen = neuroGeneration'
             /\ \A d \in DOMAIN clients : clients[d].gen < neuroGeneration'
       /\ \A c \in DOMAIN clients :
             (CallbackRuns(c) /\ clients[c].gen # neuroGeneration) =>
                 /\ neuroConnected' = neuroConnected
                 /\ lastNeuroEvent' = lastNeuroEvent
                 /\ \A d \in DOMAIN clients :
                       Registration(clients'[d]) = Registration(clients[d])
       /\ \A d \in DOMAIN clients' :
             /\ clients'[d].registerCalls <= 1
             /\ clients'[d].onAction <= 1
             /\ Len(clients'[d].contexts) <= 1
      ]_vars

\* The open callback of a superseded client has run, and did nothing, and
\* the client that superseded it is connected.
C15_Witness ==
    \E c, d \in DOMAIN clients :
        /\ clients[c].gen < clients[d].gen
        /\ clients[c].everOpen
        /\ "open" \notin clients[c].pending
        /\ clients[c].registerCalls = 0
        /\ clients[d].registerCalls = 1

\* The clients whose socket is open or can still complete its handshake.
Live == {c \in DOMAIN clients : clients[c].ws \in {"connecting", "open"}}

\* C16: reconnect closes the socket of the client held before it makes the
\* new one, also when that socket is still in its handshake; at no time are
\* two sockets of the manager live (open, or able to complete a handshake).
C16_AtMostOneLiveTransport ==
    /\ Cardinality(Live) <= 1
    /\ Live \subseteq {neuro}

\* A client was superseded in the middle of its handshake and the new one is
\* open.
C16_Witness ==
    \E c, d \in DOMAIN clients :
        /\ c < d
        /\ ~clients[c].everOpen
        /\ clients[c].ws = "closing"
        /\ clients[d].ws = "open"

\* C17: the promise of reconnectNeuro resolves only in a step that finds the
\* socket of the new client open; it never resolves for a socket that is
\* connecting, closing or closed, and once the deadline has passed without
\* that it rejects.  Once settled it stays as it is.
C17_ResolvesOnlyWhenOpen ==
    [][\A c \in DOMAIN clients :
          /\ (clients[c].wait = "polling" /\ clients'[c].wait = "resolved")
                => clients[c].ws = "open"
          /\ clients'[c].wait = "resolved" => clients'[c].everOpen
          /\ clients[c].wait \in {"resolved", "rejected", "none"}
                => clients'[c].wait = clients[c].wait
          /\ (clients[c].wait = "polling" /\ clients'[c].wait # "polling"
              /\ clients[c].ws # "open")
                => clients'[c].wait = "rejected"
          /\ clients'[c].polls <= MaxPolls
      ]_vars

\* One reconnect timed out on a socket that never opened, another resolved.
C17_Witness ==
    \E c, d \in DOMAIN clients :
        /\ clients[c].wait = "rejected"
        /\ ~clients[c].everOpen
        /\ clients[d].wait = "resolved"

\* The catalog actions the permission file, as readConfig reads it, does not
\* turn off.
EnabledNames ==
    {n \in ActionNames : Entry(readConfig(disk, TRUE).config, n) # "false"}

\* C18 as stated: once the open callback of a connect or reconnect has run,
\* the names registered with that client are exactly the catalog actions
\* whose permission is not off, and one readiness context message was sent.
C18_RegisteredIsEnabledSet ==
    \A c \in DOMAIN clients :
        clients[c].registerCalls > 0 =>
            /\ clients[c].registered = EnabledNames
            /\ Len(clients[c].contexts) = 1

\* Whether the level of action n is OFF: the persisted entry when the file
\* has one, the action's defaultPermission when it has none.
LevelOff(n) ==
    IF Persisted(disk, n) = Undefined
    THEN actions[Find(n)].defaultPermission = "OFF"
    ELSE Persisted(disk, n) = "false"

\* C19 as stated: a full resync unregisters every catalog name and then
\* registers only the actions whose level is not OFF, so that afterwards no
\* action that is OFF (by its entry, or by its default when it has no entry)
\* is registered.
C19_FullSyncRegistersEnabledOnly ==
    sync.op = "reregisterAllActions" =>
        /\ sync.unregistered = ActionNames
        /\ sync.registered = {n \in ActionNames : ~LevelOff(n)}
        /\ clients[neuro].registered = {n \in ActionNames : ~LevelOff(n)}

\* The names a transport in step with config c advertises.
NotOff(c) == {n \in ActionNames : c[n] # "OFF"}

\* C20: applyDelta(previous, next) unregisters exactly the actions that are
\* OFF in next and were not in previous, registers exactly those that are not
\* OFF in next and were in previous, and names no action whose level is
\* unchanged or moved only between FORCE and AUTOPILOT; applied to a
\* transport in step with previous, its calls leave it in step with next.
C20_DeltaCrossesOffOnly ==
    sync.op = "applyDelta" =>
        /\ \A n \in ActionNames :
              /\ n \in sync.unregistered <=>
                    (sync.next[n] = "OFF" /\ sync.previous[n] # "OFF")
              /\ n \in sync.registered <=>
                    (sync.next[n] # "OFF" /\ sync.previous[n] = "OFF")
              /\ (sync.previous[n] = sync.next[n]
                  \/ {sync.previous[n], sync.next[n]} = {"FORCE", "AUTOPILOT"})
                    => n \notin sync.unregistered \cup sync.registered
        /\ sync.unregistered \cap sync.registered = {}
        /\ (NotOff(sync.previous) \ sync.unregistered) \cup sync.registered
              = NotOff(sync.next)

\* A delta in which one action went off, one came back and one moved from
\* FORCE to AUTOPILOT.
C20_Witness ==
    /\ sync.op = "applyDelta"
    /\ sync.unregistered # {}
    /\ sync.registered # {}
    /\ \E n \in ActionNames :
          sync.previous[n] = "FORCE" /\ sync.next[n] = "AUTOPILOT"

\* An error or close callback of client c runs in this step.
ErrorOrCloseRuns(c) ==
    /\ CallbackRuns(c)
    /\ clients[c].pending \ clients'[c].pending \subseteq {"error", "close"}

\* C21: an error or close callback of the current generation records the
\* event as lastNeuroEvent and does nothing else: no new client, the
\* generation, the client held and neuroConnected as they were, no client's
\* socket, registrations or pending reconnect touched.  A client is made only
\* by a step of initNeuro or reconnectNeuro.
C21_ErrorAndCloseOnlyRecord ==
    [][/\ \A c \in DOMAIN clients :
             (ErrorOrCloseRuns(c) /\ clients[c].gen = neuroGeneration) =>
                 /\ Len(clients') = Len(clients)
                 /\ neuroGeneration' = neuroGeneration
                 /\ neuro' = neuro
                 /\ neuroConnected' = neuroConnected
                 /\ lastNeuroEvent'.type \in {"error", "close"}
                 /\ lastNeuroEvent'.gen = clients[c].gen
                 /\ \A d \in DOMAIN clients :
                       clients'[d] = [clients[d] EXCEPT
                                        !.pending = clients'[d].pending]
       /\ Len(clients') > Len(clients) =>
             /\ Len(clients') = Len(clients) + 1
             /\ lastNeuroEvent'.type \in {"connect_attempt", "reconnect_request"}
             /\ lastNeuroEvent'.gen = neuroGeneration'
      ]_vars

\* The close of the connected current client has been recorded, and nothing
\* has reconnected: the client held is closed.
C21_Witness ==
    /\ neuro # 0
    /\ lastNeuroEvent = NeuroEvent("close", neuroGeneration)
    /\ clients[neuro].ws = "closed"
    /\ clients[neuro].registerCalls = 1
    /\ Len(clients) = neuroGeneration

\* C22: no step of the connection manager (connect, reconnect, its wait,
\* socket events and their callbacks) changes the permission file: what is
\* persisted before a reconnect is what is persisted after it, whether it
\* resolved or timed out.
C22_ConnectionLeavesPermissions ==
    [][connVars' # connVars => disk' = disk]_vars

\* With an action turned off in the file, one reconnect has timed out and a
\* later one has resolved; the file still holds the entry.
C22_Witness ==
    /\ disk.kind = "new"
    /\ \E n \in ActionNames : disk.perms[n] = "false"
    /\ \E c, d \in DOMAIN clients :
          /\ c < d
          /\ clients[c].wait = "rejected"
          /\ clients[d].wait = "resolved"

\* Whether the catalog declares action n with defaultPermission OFF.
DeclaredOff(n) == actions[Find(n)].defaultPermission = "OFF"

\* C23 as stated: getDefaultConfig has exactly the catalog names as keys and
\* gives each action its declared defaultPermission, so that an action
\* declared OFF is disabled in it.
C23_DefaultsFollowDeclaration ==
    sync.op = "normalizeConfig" =>
        /\ DOMAIN sync.defaults = ActionNames
        /\ \A n \in ActionNames :
              DeclaredOff(n) => PermissionDisabled(sync.defaults, n)

\* C24 as stated: the keys of normalizeConfig(actions, input, previous) are
\* exactly the catalog names: every catalog name is there, and no name of
\* input or previous that is not in the catalog.
C24_NormalizedKeysAreCatalog ==
    sync.op = "normalizeConfig" => DOMAIN sync.result = ActionNames

\* C25: normalizeConfig(actions, normalizeConfig(actions, input)) equals
\* normalizeConfig(actions, input), for every input.
C25_NormalizeIdempotent ==
    sync.op = "normalizeConfig" => sync.twice = sync.once

\* An input with a name outside the catalog, a value that is no boolean and
\* a catalog name left out was normalized.
C25_Witness ==
    /\ sync.op = "normalizeConfig"
    /\ "removed_action" \in DOMAIN sync.input
    /\ \E n \in ActionNames : n \notin DOMAIN sync.input
    /\ \E k \in DOMAIN sync.input : sync.input[k] = "OFF"
    /\ \E k \in DOMAIN sync.once : sync.once[k] = "false"

\* C26 as stated, for an input of booleans: for every catalog name n the
\* result holds input[n] when input mentions n, otherwise previous[n] when
\* previous has n, otherwise the action's declared default.
C26_MergePrecedence ==
    (sync.op = "normalizeConfig"
     /\ \A k \in DOMAIN sync.input : sync.input[k] \in {"true", "false"}) =>
        \A n \in ActionNames :
            /\ n \in DOMAIN sync.result
            /\ IF n \in DOMAIN sync.input
               THEN sync.result[n] = sync.input[n]
               ELSE IF n \in DOMAIN sync.previous
               THEN sync.result[n] = sync.previous[n]
               ELSE DeclaredOff(n) <=> sync.result[n] = "false"

\* The reads made so far, when reads are being made.
Reads == IF sync.op = "reads" THEN sync.log ELSE << >>

\* C27 as stated, on a file system that takes every write: a read of a
\* missing, unreadable, empty or non-object file returns the default config
\* and leaves the file holding exactly those defaults, one entry per catalog
\* action, so that the next read returns the same config from the file,
\* without writing.
C27_FallbackPersistsDefaults ==
    \A i \in 1..Len(Reads) :
        (/\ Reads[i].before.kind \in {"missing", "unreadable", "blank", "scalar"}
         /\ \A j \in 1..Len(Reads) : Reads[j].writeOk) =>
            /\ Reads[i].config = getDefaultConfig
            /\ Reads[i].after = File("new", getDefaultConfig)
            /\ DOMAIN Reads[i].after.perms = ActionNames
            /\ i < Len(Reads) =>
                  /\ Reads[i + 1].before = Reads[i].after
                  /\ Reads[i + 1].config = Reads[i].config
                  /\ Reads[i + 1].after = Reads[i + 1].before

\* C28 as stated, for a legacy file that marks an action false: a read of a
\* legacy flat file returns a config that holds, for every catalog action
\* the file names, the value the file gave it, and rewrites the file at once
\* as { permissions: config }; every later read returns the same config and
\* writes nothing.
C28_LegacyMigratedOnce ==
    \A i \in 1..Len(Reads) :
        (/\ Reads[i].before.kind = "legacy"
         /\ \E n \in DOMAIN Reads[i].before.perms :
               Reads[i].before.perms[n] = "false") =>
            /\ \A n \in ActionNames \cap DOMAIN Reads[i].before.perms :
                  Entry(Reads[i].config, n) = Reads[i].before.perms[n]
            /\ Reads[i].after = File("new", Reads[i].config)
            /\ \A j \in (i + 1)..Len(Reads) :
                  /\ Reads[j].config = Reads[i].config
                  /\ Reads[j].after = Reads[j].before

\* The update made, if one was.
Updated == sync.op = "update" /\ sync.done

\* C29 as stated: validateIncomingConfig rejects every payload that is not a
\* JSON object and every payload with a key that is no catalog action name,
\* and a rejected update applies nothing: the file is as it was.
C29_RejectsNonObjectsAndUnknownKeys ==
    Updated =>
        /\ sync.payload.json # "object" => ~sync.result.ok
        /\ (\E k \in DOMAIN sync.payload.entries : k \notin ActionNames) =>
              ~sync.result.ok
        /\ ~sync.result.ok => sync.after = sync.before

\* The fields of the transport's Action.
WireFields == {"name", "description", "schema"}

\* C30: the record stripToAction advertises has exactly the fields name,
\* description and schema, each copied from the action, so that two actions
\* that agree on those three are advertised identically whatever their
\* handler, validators, displayName and defaultPermission.
C30_AdvertisedIsNameDescriptionSchema ==
    sync.op = "stripToAction" =>
        /\ DOMAIN sync.wa = WireFields
        /\ \A f \in WireFields : sync.wa[f] = sync.a[f]
        /\ (\A f \in WireFields : sync.a[f] = sync.b[f]) => sync.wa = sync.wb

\* Two actions that differ in handler, validators and defaultPermission only
\* have been stripped.
C30_Witness ==
    /\ sync.op = "stripToAction"
    /\ \A f \in WireFields : sync.a[f] = sync.b[f]
    /\ sync.a.handler # sync.b.handler
    /\ sync.a.validators # sync.b.validators
    /\ sync.a.defaultPermission # sync.b.defaultPermission
    /\ sync.wa = sync.wb

\* The indices (from 1) at which the catalog holds name n.
Occurrences(as, n) == {i \in 1..Len(as) : as[i].name = n}

\* Name n is the catalog's only duplicate, at i < j and nowhere else.
OnlyDuplicate(as, n, i, j) ==
    /\ i < j
    /\ Occurrences(as, n) = {i, j}
    /\ \A m \in CatalogNames \ {n} : Cardinality(Occurrences(as, m)) <= 1

\* C31: for a catalog in which one name occurs at i < j and nowhere else, the
\* duplicate check logs exactly one error, naming the indices i and j, goes
\* on to register the catalog, and a lookup by that name resolves to the
\* action at i.
C31_OneDuplicateErrorFirstWins ==
    sync.op = "checked" =>
        \A n \in CatalogNames : \A i, j \in 1..Len(sync.catalog) :
            OnlyDuplicate(sync.catalog, n, i, j) =>
                /\ sync.errors = << DuplicateMessage(n, i - 1, j - 1) >>
                /\ n \in sync.registered
                /\ sync.found[n] = i

\* A catalog with a name at its first and its last entry, another name in
\* between, has been checked.
C31_Witness ==
    /\ sync.op = "checked"
    /\ Len(sync.catalog) >= 3
    /\ \E n \in CatalogNames :
          /\ OnlyDuplicate(sync.catalog, n, 1, Len(sync.catalog))
          /\ Len(sync.errors) = 1
          /\ sync.found[n] = 1

\* The permission gate turned request r away (rce.ts:26-30).
GateRejected(r) ==
    \E k \in 1..Len(trace[r]) :
        trace[r][k] = DisabledCalls(IdOf(r), req[r].name)[1]

\* C32 as stated, where a migration write readConfig makes goes through: a
\* request for a catalog action that reaches the permission gate is turned
\* away exactly when the entry the file holds for the action denotes OFF
\* ("OFF" in the documented format, false in the boolean one); "FORCE" and
\* "AUTOPILOT" are both admitted.
C32_GateRejectsExactlyOff ==
    [][\A r \in ReqIds :
          ( /\ req[r].pc = "idle"
            /\ req'[r].pc # "idle"
            /\ docker
            /\ Find(req'[r].name) # 0
            /\ disk.kind = "legacy" => disk'.kind = "new" )
          => ( GateRejected(r)' <=>
                  Persisted(disk, req'[r].name) \in {"OFF", "false"} )]_vars

\* C33 as stated: the config readConfig returns has exactly the catalog's
\* action names as keys, whatever names the file holds.
C33_ReturnedKeysAreCatalog ==
    \A i \in 1..Len(Reads) : DOMAIN Reads[i].config = ActionNames

\* C34 as stated: the context message the readiness gate sends when the
\* resource manager is not initialised is not silent: its silent flag is
\* false or absent.
C34_NotReadyMessageNotSilent ==
    \A r \in ReqIds :
        NotReady(r) =>
            \A k \in At(r, "sendContext") : JsNot(trace[r][k].silent)

\* C35: readConfig never throws, whatever the file and whether or not its
\* own write goes through, so RCEActionHandler never takes its 'Permission
\* check failed' branch: no request is answered success = true with the
\* "Failed to check your access" message, and a request that got past the
\* lookup has read a config.
C35_PermissionCheckNeverFails ==
    \A r \in ReqIds :
        /\ \A k \in 1..Len(trace[r]) :
              trace[r][k] # PermissionCheckFailedCalls(IdOf(r))[1]
        /\ (At(r, "find") # {} /\ trace[r][2].found) =>
              /\ At(r, "readConfig") = {3}
              /\ trace[r][3].entry \in {"true", "false", Undefined}

\* A request has read the permissions from a file that could not be read, or
\* that readConfig could not rewrite, and has had its handler called.
C35_Witness ==
    \E r \in ReqIds :
        /\ disk.kind \in {"unreadable", "garbage", "missing", "legacy"}
        /\ At(r, "readConfig") # {}
        /\ At(r, "handler") # {}

\* C36 as stated, but for a socket on its way to closed: while
\* neuroConnected is true the socket of the client held is open, or is
\* closing, or its close callback has yet to run; once the close of the
\* current connection has been recorded the flag is false.
C36_ConnectedMeansOpen ==
    /\ neuroConnected =>
          /\ neuro # 0
          /\ \/ clients[neuro].ws \in {"open", "closing"}
             \/ "close" \in clients[neuro].pending
    /\ lastNeuroEvent = NeuroEvent("close", neuroGeneration) => ~neuroConnected

\* C37 as stated: once the wait of reconnectNeuro has timed out for a client,
\* a later open of that client's socket does nothing: no registration, no
\* readiness message, neuroConnected and lastNeuroEvent as they were; so the
\* reconnect_fail event is not replaced by a connected event of that attempt.
C37_TimedOutAttemptStaysInert ==
    [][\A c \in DOMAIN clients :
          ( /\ clients[c].wait = "rejected"
            /\ CallbackRuns(c)
            /\ "open" \in clients[c].pending \ clients'[c].pending )
          => /\ neuroConnected' = neuroConnected
             /\ lastNeuroEvent' = lastNeuroEvent
             /\ \A d \in DOMAIN clients :
                   Registration(clients'[d]) = Registration(clients[d])]_vars

\* C38 as stated: every message produced for a request, its acknowledgment
\* or result and its outcome context message, goes out on the client that
\* delivered the request, also when a reconnect replaces the client held
\* while a validator or the handler is awaited.
C38_MessagesOnDeliveringConnection ==
    sync.op = "route" =>
        \A r \in ReqIds :
            \A i \in 1..Len(sync.sent[r]) : sync.sent[r][i] = sync.origin[r]

\* C39 as stated: across every writeConfig, the self-healing and migration
\* writes of readConfig included, the neuro section readDiskConfig returns
\* for the file is what it was before.
C39_WritePreservesNeuroSection ==
    sync.op = "shared" =>
        \A i \in 1..Len(sync.log) :
            NeuroSection(sync.log[i].after) = NeuroSection(sync.log[i].before)

====
